---- MODULE Spec2Model ----
(***************************************************************************)
(* Model of the pricing oracle (unytco/pricing_oracle):                    *)
(*   - aggregate()              src/src/aggregate.rs                       *)
(*   - aggregate_forex_rates()  src/src/forex_aggregate.rs                 *)
(*   - Config::validate & co.   src/src/config.rs                          *)
(*   - main()'s fetch / aggregate / proxy / sort pipeline  src/src/main.rs *)
(*   - build_conversion_table()  src/src/output.rs                          *)
(*                                                                         *)
(* f64 values are modelled as exact rationals extended with the IEEE-754   *)
(* special values the code can produce from finite inputs (+/-inf, NaN).   *)
(* Rounding and signed zero are not modelled; the input prices are small   *)
(* integers, for which sums are exact in f64.                              *)
(***************************************************************************)
EXTENDS Integers, Sequences, FiniteSets, TLC

VARIABLES
    data,              \* aggregate(): the quote list passed in
    result,            \* aggregate(): the AggregatedResult returned (or NoResult)
    cfg,               \* main(): the loaded Config (units, price_references)
    accepted,          \* Config::load: "pending", then "ok" or validate's error
    args_unit,         \* main(): --unit filter, an Option<u32>
    pc,                \* main(): the loop main() is in ("refs", "real", "proxy", "sort"),
                       \* "done" after the sort, "end" after the output
    i,                 \* main(): position in that loop's list (1-based)
    reference_prices,  \* main(): HashMap<String, AggregatedResult>
    aggregated,        \* main(): Vec<AggregatedResult>
    warnings,          \* main(): "proxy ... not found or not fetched" diagnostics
    table,             \* build_conversion_table(): the Result returned (or NoResult)
    symbols,           \* aggregate_forex_rates(): requested symbols
    source_results,    \* aggregate_forex_rates(): per-source Ok(map)/Err
    forex_out          \* aggregate_forex_rates(): the returned Vec, wrapped (or NoResult)

vars == <<data, result, cfg, accepted, args_unit, pc, i, reference_prices,
          aggregated, warnings, table, symbols, source_results, forex_out>>

-----------------------------------------------------------------------------
(* f64 arithmetic                                                          *)

Abs(x) == IF x < 0 THEN -x ELSE x

Sign(x) == IF x < 0 THEN -1 ELSE IF x = 0 THEN 0 ELSE 1

RECURSIVE Gcd(_, _)
Gcd(a, b) == IF b = 0 THEN a ELSE Gcd(b, a % b)

\* A finite f64: the rational n/d in lowest terms, d > 0.
F(n, d) ==
    LET g == Gcd(Abs(n), Abs(d))
        s == Sign(d)
    IN  [k |-> "fin", n |-> (s * n) \div g, d |-> Abs(d) \div g]

FromInt(x) == [k |-> "fin", n |-> x, d |-> 1]

NaN == [k |-> "nan", n |-> 0, d |-> 0]

\* +inf (s = 1) or -inf (s = -1)
Inf(s) == [k |-> "inf", n |-> s, d |-> 0]

\* Option<u32>: None, Some(v)
NoneU == [some |-> FALSE, v |-> 0]

SomeU(v) == [some |-> TRUE, v |-> v]

\* Option<String>: None, Some(v)
NoneS == [some |-> FALSE, v |-> ""]

SomeS(v) == [some |-> TRUE, v |-> v]

\* Option<f64>::None
NoneF == [k |-> "none", n |-> 0, d |-> 0]

is_finite(a) == a.k = "fin"

\* a + b
FAdd(a, b) ==
    IF a.k = "nan" \/ b.k = "nan" THEN NaN
    ELSE IF a.k = "inf" /\ b.k = "inf" THEN (IF a.n = b.n THEN a ELSE NaN)
    ELSE IF a.k = "inf" THEN a
    ELSE IF b.k = "inf" THEN b
    ELSE F(a.n * b.d + b.n * a.d, a.d * b.d)

\* -a
FNeg(a) == IF a.k = "nan" THEN NaN ELSE [a EXCEPT !.n = -a.n]

\* a - b
FSub(a, b) == FAdd(a, FNeg(b))

\* a.abs()
FAbs(a) == IF a.k = "nan" THEN NaN ELSE [a EXCEPT !.n = Abs(a.n)]

\* a / b with IEEE-754 results for a zero divisor: x/0 = +/-inf, 0/0 = NaN
FDiv(a, b) ==
    IF a.k = "nan" \/ b.k = "nan" THEN NaN
    ELSE IF a.k = "inf" /\ b.k = "inf" THEN NaN
    ELSE IF a.k = "inf" THEN Inf(a.n * (IF b.n < 0 THEN -1 ELSE 1))
    ELSE IF b.k = "inf" THEN FromInt(0)
    ELSE IF b.n = 0 THEN (IF a.n = 0 THEN NaN ELSE Inf(Sign(a.n)))
    ELSE F(a.n * b.d, a.d * b.n)

\* a <= b (false when either side is NaN)
FLe(a, b) ==
    IF a.k = "nan" \/ b.k = "nan" THEN FALSE
    ELSE IF a.k = "inf" THEN (a.n = -1 \/ a = b)
    ELSE IF b.k = "inf" THEN b.n = 1
    ELSE a.n * b.d <= b.n * a.d

\* a > b (false when either side is NaN)
FGt(a, b) ==
    IF a.k = "nan" \/ b.k = "nan" THEN FALSE
    ELSE ~FLe(a, b)

\* iter().sum::<f64>()
RECURSIVE FSum(_)
FSum(s) == IF s = <<>> THEN FromInt(0) ELSE FAdd(FSum(SubSeq(s, 1, Len(s) - 1)), s[Len(s)])

-----------------------------------------------------------------------------
(* Sequence helpers                                                        *)

\* All sequences over S of length 0..n
SeqsUpTo(S, n) == UNION {[1..m -> S] : m \in 0..n}

-----------------------------------------------------------------------------
(* aggregate.rs                                                            *)

\* Mutant: a 2% threshold
DEVIATION_THRESHOLD_2pct == F(2, 100)

\* Mutant: a 0.1% threshold
DEVIATION_THRESHOLD_tenth_pct == F(1, 1000)

DEVIATION_THRESHOLD == F(1, 100)

NoResult == [none |-> TRUE]

\* types::TokenData (chain, market_cap, liquidity and timestamp are never read
\* by the aggregation code and are left out)
TokenData(name, contract, price_usd, volume_24h, price_change_24h, source) ==
    [name |-> name, contract |-> contract, price_usd |-> price_usd,
     volume_24h |-> volume_24h, price_change_24h |-> price_change_24h,
     source |-> source]

\* data.iter().map(|d| d.volume_24h)
volumes(d) == [k \in 1..Len(d) |-> d[k].volume_24h]

\* data.iter().map(|d| d.price_change_24h)
price_changes(d) == [k \in 1..Len(d) |-> d[k].price_change_24h]

\* Mutant: only the quotes that supply a volume enter the price sum
prices_supplying_volume(d) ==
    LET HasVolume(q) == q.volume_24h.k # "none"
        kept == SelectSeq(d, HasVolume)
    IN  [k \in 1..Len(kept) |-> kept[k].price_usd]

\* data.iter().map(|d| d.price_usd)
prices(d) == [k \in 1..Len(d) |-> d[k].price_usd]

IsSome(v) == v.k # "none"

\* Mutant: the sum of the supplied values is divided by the number of quotes
aggregate_optional_over_all(projected) ==
    LET vals == SelectSeq(projected, IsSome)
    IN  IF vals = <<>> THEN NoneF
        ELSE FDiv(FSum(vals), FromInt(Len(projected)))

\* aggregate_optional(&data, f), given the values f projects
aggregate_optional(projected) ==
    LET vals == SelectSeq(projected, IsSome)
    IN  IF vals = <<>> THEN NoneF
        ELSE FDiv(FSum(vals), FromInt(Len(vals)))

\* (d.price_usd - avg_price).abs() / avg_price
deviation(d, avg_price) == FDiv(FAbs(FSub(d.price_usd, avg_price)), avg_price)

\* Mutant: iter().any() instead of iter().all()
any_within(d, avg_price) ==
    \E k \in 1..Len(d) : FLe(deviation(d[k], avg_price), DEVIATION_THRESHOLD)

\* deviation <= DEVIATION_THRESHOLD, for every quote
all_within(d, avg_price) ==
    \A k \in 1..Len(d) : FLe(deviation(d[k], avg_price), DEVIATION_THRESHOLD)

\* Mutant: no early return for an empty list
aggregate_without_early_return(unit_index, d) ==
    LET avg_price == FDiv(FSum(prices(d)), FromInt(Len(d)))
    IN  [unit_index |-> unit_index,
         name |-> IF d = <<>> THEN "" ELSE d[1].name,
         contract |-> IF d = <<>> THEN "" ELSE d[1].contract,
         avg_price_usd |-> avg_price,
         volume_24h |-> aggregate_optional(volumes(d)),
         price_change_24h |-> aggregate_optional(price_changes(d)),
         sources |-> [k \in 1..Len(d) |-> d[k].source],
         valid |-> IF Len(d) < 2 THEN TRUE ELSE all_within(d, avg_price),
         per_source |-> d]

\* Mutant: a single quote is cross-checked against the mean too
aggregate_checks_single(unit_index, d) ==
    LET avg_price == FDiv(FSum(prices(d)), FromInt(Len(d)))
    IN  [unit_index |-> unit_index,
         name |-> IF d = <<>> THEN "" ELSE d[1].name,
         contract |-> IF d = <<>> THEN "" ELSE d[1].contract,
         avg_price_usd |-> IF d = <<>> THEN FromInt(0) ELSE avg_price,
         volume_24h |-> aggregate_optional(volumes(d)),
         price_change_24h |-> aggregate_optional(price_changes(d)),
         sources |-> [k \in 1..Len(d) |-> d[k].source],
         valid |-> IF d = <<>> THEN FALSE ELSE all_within(d, avg_price),
         per_source |-> d]

aggregate(unit_index, d) ==
    LET name     == IF d = <<>> THEN "" ELSE d[1].name
        contract == IF d = <<>> THEN "" ELSE d[1].contract
        sources  == [k \in 1..Len(d) |-> d[k].source]
    IN  IF d = <<>>
        THEN [unit_index |-> unit_index, name |-> name, contract |-> contract,
              avg_price_usd |-> FromInt(0), volume_24h |-> NoneF,
              price_change_24h |-> NoneF, sources |-> sources,
              valid |-> FALSE, per_source |-> d]
        ELSE LET avg_price == FDiv(FSum(prices(d)), FromInt(Len(d)))
                 valid     == IF Len(d) < 2 THEN TRUE ELSE all_within(d, avg_price)
             IN  [unit_index |-> unit_index, name |-> name, contract |-> contract,
                  avg_price_usd |-> avg_price,
                  volume_24h |-> aggregate_optional(volumes(d)),
                  price_change_24h |-> aggregate_optional(price_changes(d)),
                  sources |-> sources, valid |-> valid, per_source |-> d]

-----------------------------------------------------------------------------
(* Specification SpecAggregate: aggregate() applied to every quote list of *)
(* at most MaxQuotes quotes.                                               *)

MaxQuotes == 3

\* price_usd values the providers report (USD, as integers)
AggPrices == {-100, 0, 99, 100, 101, 102, 120}

\* What a provider may supply of the optional fields: GeckoTerminal never
\* supplies price_change_24h, CoinGecko supplies what the API returned.
AggQuotes ==
    {TokenData("tok", "0xabc", FromInt(p), NoneF, NoneF, "geckoterminal") : p \in AggPrices}
    \cup {TokenData("tok", "0xabc", FromInt(p), FromInt(10), NoneF, "geckoterminal") : p \in AggPrices}
    \cup {TokenData("tok", "0xabc", FromInt(p), FromInt(20), FromInt(5), "coingecko") : p \in AggPrices}

EmptyMap == [x \in {} |-> NoResult]

EmptyCfg == [price_references |-> <<>>, units |-> <<>>]

IdleAggregate == data = <<>> /\ result = NoResult

IdleMain ==
    /\ cfg = EmptyCfg
    /\ accepted = "pending"
    /\ args_unit = NoneU
    /\ pc = "idle"
    /\ i = 1
    /\ reference_prices = EmptyMap
    /\ aggregated = <<>>
    /\ warnings = <<>>
    /\ table = NoResult

IdleForex == symbols = <<>> /\ source_results = <<>> /\ forex_out = NoResult

mainVars == <<cfg, accepted, args_unit, pc, i, reference_prices, aggregated, warnings, table>>

forexVars == <<symbols, source_results, forex_out>>

InitAggregate ==
    /\ data \in SeqsUpTo(AggQuotes, MaxQuotes)
    /\ result = NoResult
    /\ IdleMain
    /\ IdleForex

CallAggregate ==
    /\ result = NoResult
    /\ \E unit_index \in {0, 1} : result' = aggregate(unit_index, data)
    /\ UNCHANGED <<data, mainVars, forexVars>>

NextAggregate == CallAggregate

SpecAggregate == InitAggregate /\ [][NextAggregate]_vars

-----------------------------------------------------------------------------
(* Claims about aggregate()                                                *)

\* The quotes' prices as integers (every modelled price is an integer)
IntPrices(d) == [k \in 1..Len(d) |-> d[k].price_usd.n]

RECURSIVE IntSum(_)
IntSum(s) == IF s = <<>> THEN 0 ELSE s[1] + IntSum(Tail(s))

\* |p - mean| / mean <= 1/100 for mean = s/n, n > 0, stated over the integers.
\* For s > 0 this is 100 * |n*p - s| <= s.  For s < 0 the quotient is <= 0, so
\* the inequality holds.  For s = 0 the quotient is not a number <= 1/100
\* (IEEE: +inf or NaN), so it does not hold.
RelDevWithin1Pct(p, s, n) ==
    IF s > 0 THEN 100 * Abs(n * p - s) <= s
    ELSE s < 0

AllSame(s) == \A j, k \in 1..Len(s) : s[j] = s[k]

\* C1: for two or more quotes, valid = TRUE iff every quote has
\* |price - mean| / mean <= 1%, whatever the sign of the mean.
C1_ValidIffAllWithin ==
    (result # NoResult /\ Len(data) >= 2) =>
        LET ps == IntPrices(data)
        IN  result.valid <=>
                \A k \in 1..Len(ps) : RelDevWithin1Pct(ps[k], IntSum(ps), Len(ps))

\* C1 witness: three quotes, positive mean, exactly one quote beyond 1%, and the
\* whole result is invalid.
C1_Witness ==
    /\ result # NoResult
    /\ Len(data) = 3
    /\ LET ps == IntPrices(data)
       IN  /\ IntSum(ps) > 0
           /\ Cardinality({k \in 1..3 : ~RelDevWithin1Pct(ps[k], IntSum(ps), 3)}) = 1
    /\ ~result.valid

\* C2 as stated: [100, 100, 102] is valid and [100, 100, 120] is invalid.
C2_Original ==
    result # NoResult =>
        /\ (IntPrices(data) = <<100, 100, 102>> => result.valid)
        /\ (IntPrices(data) = <<100, 100, 120>> => ~result.valid)

\* C2 amended: [100, 100, 102] is invalid (102 deviates 4/302 = 1.32% from the
\* mean 302/3) and [100, 100, 120] is invalid.
C2_BothInvalid ==
    result # NoResult =>
        /\ (IntPrices(data) = <<100, 100, 102>> => ~result.valid)
        /\ (IntPrices(data) = <<100, 100, 120>> => ~result.valid)

\* C2 witness: aggregate() has returned for [100, 100, 102], invalid, with mean 302/3.
C2_Witness ==
    /\ result # NoResult
    /\ IntPrices(data) = <<100, 100, 102>>
    /\ ~result.valid
    /\ result.avg_price_usd = F(302, 3)

\* C3 as stated: identical prices p, any length >= 1, any p, give valid = TRUE
\* and avg_price_usd = p.
C3_Original ==
    (result # NoResult /\ data # <<>> /\ AllSame(IntPrices(data))) =>
        /\ result.valid
        /\ result.avg_price_usd = FromInt(IntPrices(data)[1])

\* C13: aggregate() on an empty quote list returns the no-data result: the
\* given unit_index, avg_price_usd = 0, valid = FALSE, no sources, empty name
\* and contract, no volume and no price change.
C13_EmptyGivesNoDataResult ==
    [][\A unit_index \in {0, 1} :
          (data = <<>> /\ result = NoResult /\ result' = aggregate(unit_index, data)) =>
              result' = [unit_index |-> unit_index, name |-> "", contract |-> "",
                         avg_price_usd |-> FromInt(0), volume_24h |-> NoneF,
                         price_change_24h |-> NoneF, sources |-> <<>>,
                         valid |-> FALSE, per_source |-> <<>>]]_vars

\* C13 witness: aggregate(1, []) has returned.
C13_Witness ==
    /\ data = <<>>
    /\ result # NoResult
    /\ result.unit_index = 1
    /\ ~result.valid

\* C14: exactly one quote gives valid = TRUE and avg_price_usd = its price,
\* whatever the price (zero and negative included).
C14_SingleQuoteIsValid ==
    (result # NoResult /\ Len(data) = 1) =>
        /\ result.valid
        /\ result.avg_price_usd = data[1].price_usd

\* C14 witness: one quote priced 0 has been aggregated, valid, at price 0.
C14_Witness ==
    /\ result # NoResult
    /\ Len(data) = 1
    /\ data[1].price_usd = FromInt(0)
    /\ result.valid
    /\ result.avg_price_usd = FromInt(0)

\* The values of an optional field that the quotes supply, as integers
Supplied(projected) ==
    LET vals == SelectSeq(projected, IsSome)
    IN  [k \in 1..Len(vals) |-> vals[k].n]

\* The mean of the supplied values; absent when no quote supplies one
MeanOfSupplied(projected) ==
    LET vals == Supplied(projected)
    IN  IF vals = <<>> THEN NoneF ELSE F(IntSum(vals), Len(vals))

\* C15: volume_24h and price_change_24h are each the mean over the quotes that
\* supply that field, independently of each other and of the price; a field no
\* quote supplies is absent; avg_price_usd is the mean over all the quotes.
C15_OptionalFieldsAveragedOverSuppliers ==
    (result # NoResult /\ data # <<>>) =>
        /\ result.volume_24h = MeanOfSupplied(volumes(data))
        /\ result.price_change_24h = MeanOfSupplied(price_changes(data))
        /\ result.avg_price_usd = F(IntSum(IntPrices(data)), Len(data))

\* C15 witness: volumes [10, absent, 20] give 15; only the third quote supplies
\* a price change, and it is the result's.
C15_Witness ==
    /\ result # NoResult
    /\ volumes(data) = <<FromInt(10), NoneF, FromInt(20)>>
    /\ price_changes(data) = <<NoneF, NoneF, FromInt(5)>>
    /\ result.volume_24h = FromInt(15)
    /\ result.price_change_24h = FromInt(5)

\* C16: for a non-empty list avg_price_usd is the unweighted mean of all the
\* quotes' prices, valid or not, whatever optional fields the quotes supply.
C16_AvgIsMeanOfAllPrices ==
    (result # NoResult /\ data # <<>>) =>
        result.avg_price_usd = F(IntSum(IntPrices(data)), Len(data))

\* C16 witness: [100, 100, 120] with different optional fields per quote is
\* invalid and its average is 320/3, the outlier included.
C16_Witness ==
    /\ result # NoResult
    /\ IntPrices(data) = <<100, 100, 120>>
    /\ volumes(data) = <<NoneF, FromInt(10), FromInt(20)>>
    /\ ~result.valid
    /\ result.avg_price_usd = F(320, 3)

-----------------------------------------------------------------------------
(* config.rs                                                               *)

\* config::PriceProxy; Option<PriceProxy>::None is NoProxy
NoProxy == [some |-> FALSE, use_unit |-> NoneU, use_reference |-> NoneS]

PriceProxy(use_unit, use_reference) ==
    [some |-> TRUE, use_unit |-> use_unit, use_reference |-> use_reference]

\* config::UnitConfig (chain and decimals are read by the provider adapters only)
UnitConfig(unit_index, name, contract, price_proxy) ==
    [unit_index |-> unit_index, name |-> name, contract |-> contract,
     price_proxy |-> price_proxy]

\* config::PriceReference
PriceReference(id, name, contract) == [id |-> id, name |-> name, contract |-> contract]

\* PriceReference::to_unit_config_for_fetch
to_unit_config_for_fetch(r) == UnitConfig(0, r.name, r.contract, NoProxy)

\* Mutant: validate() without the check that a proxy does not point to itself
validate_unit_allows_self(c, k) ==
    LET unit  == c.units[k]
        proxy == unit.price_proxy
        has_unit == proxy.use_unit.some
        has_ref  == proxy.use_reference.some
    IN  IF \E j \in 1..(k - 1) : c.units[j].unit_index = unit.unit_index
        THEN "duplicate unit_index"
        ELSE IF ~proxy.some THEN "ok"
        ELSE IF has_unit = has_ref
        THEN "exactly one of use_unit or use_reference"
        ELSE IF has_unit /\ ~\E j \in 1..Len(c.units) :
                                   c.units[j].unit_index = proxy.use_unit.v
        THEN "use_unit does not exist"
        ELSE IF has_ref /\ ~\E j \in 1..Len(c.price_references) :
                                  c.price_references[j].id = proxy.use_reference.v
        THEN "use_reference does not exist"
        ELSE "ok"

\* The first error validate() bails with for units[k], the units before it
\* having passed; "ok" if it passes.
validate_unit(c, k) ==
    LET unit  == c.units[k]
        proxy == unit.price_proxy
        has_unit == proxy.use_unit.some
        has_ref  == proxy.use_reference.some
    IN  IF \E j \in 1..(k - 1) : c.units[j].unit_index = unit.unit_index
        THEN "duplicate unit_index"
        ELSE IF ~proxy.some THEN "ok"
        ELSE IF has_unit = has_ref
        THEN "exactly one of use_unit or use_reference"
        ELSE IF has_unit /\ ~\E j \in 1..Len(c.units) :
                                   c.units[j].unit_index = proxy.use_unit.v
        THEN "use_unit does not exist"
        ELSE IF has_unit /\ proxy.use_unit.v = unit.unit_index
        THEN "pointing to itself"
        ELSE IF has_ref /\ ~\E j \in 1..Len(c.price_references) :
                                  c.price_references[j].id = proxy.use_reference.v
        THEN "use_reference does not exist"
        ELSE "ok"

\* Config::validate: "ok", or the message of the first bail!
validate(c) ==
    LET bad == {k \in 1..Len(c.units) : validate_unit(c, k) # "ok"}
    IN  IF \E j, k \in 1..Len(c.price_references) :
              j < k /\ c.price_references[j].id = c.price_references[k].id
        THEN "duplicate price_reference id"
        ELSE IF bad # {}
        THEN validate_unit(c, CHOOSE k \in bad : \A j \in bad : k <= j)
        ELSE "ok"

is_real(u) == ~u.price_proxy.some

is_proxy(u) == u.price_proxy.some

\* Config::real_units
real_units(c) == SelectSeq(c.units, is_real)

\* Mutant: the proxy units in reverse configuration order
proxy_units_rev(c) ==
    LET ps == SelectSeq(c.units, is_proxy)
    IN  [k \in 1..Len(ps) |-> ps[Len(ps) + 1 - k]]

\* Config::proxy_units
proxy_units(c) == SelectSeq(c.units, is_proxy)

\* config::ProxySource, or the error resolve_proxy_source bails with
ProxySourceUnit(u) == [kind |-> "unit", unit |-> u, id |-> ""]

ProxySourceReference(id) == [kind |-> "reference", unit |-> 0, id |-> id]

ProxySourceErr == [kind |-> "err", unit |-> 0, id |-> ""]

\* Config::resolve_proxy_source
resolve_proxy_source(unit_index, proxy) ==
    IF proxy.use_unit.some
    THEN IF proxy.use_unit.v = unit_index THEN ProxySourceErr
         ELSE ProxySourceUnit(proxy.use_unit.v)
    ELSE IF proxy.use_reference.some
    THEN ProxySourceReference(proxy.use_reference.v)
    ELSE ProxySourceErr

-----------------------------------------------------------------------------
(* sources/mod.rs, as main() builds the registry                           *)

\* SourceRegistry::new(client, coingecko_key): GeckoTerminal always, CoinGecko
\* when COINGECKO_API_KEY is set (here it is).
Registry == <<"geckoterminal", "coingecko">>

\* Result<TokenData>
Err == [ok |-> FALSE, data |-> NoResult]

Ok(d) == [ok |-> TRUE, data |-> d]

is_ok(r) == r.ok

\* PriceSource::fetch(unit): what the provider may answer.  The quote carries
\* the unit's own name and contract; GeckoTerminal never reports a 24h change.
fetch(source, unit) ==
    {Err} \cup
    IF source = "geckoterminal"
    THEN {Ok(TokenData(unit.name, unit.contract, F(100, 100), FromInt(10), NoneF, source))}
    ELSE {Ok(TokenData(unit.name, unit.contract, F(p, 100), FromInt(20), FromInt(5), source)) :
              p \in {101, 120}}

\* SourceRegistry::fetch_all(unit): one result per registered source, in order
fetch_all(unit) ==
    {<<r1, r2>> : r1 \in fetch(Registry[1], unit), r2 \in fetch(Registry[2], unit)}

\* main(): the Ok results of fetch_all, in order
successful(fetch_results) ==
    LET oks == SelectSeq(fetch_results, is_ok)
    IN  [k \in 1..Len(oks) |-> oks[k].data]

-----------------------------------------------------------------------------
(* main.rs                                                                 *)

\* HashMap::insert
Insert(m, key, v) == [x \in (DOMAIN m) \cup {key} |-> IF x = key THEN v ELSE m[x]]

\* HashMap::get(id).cloned()
Get(m, key) ==
    IF key \in DOMAIN m THEN [found |-> TRUE, v |-> m[key]]
    ELSE [found |-> FALSE, v |-> NoResult]

\* aggregated.iter().find(|a| a.unit_index == use_unit).cloned()
find(agg, use_unit) ==
    LET hits == {k \in 1..Len(agg) : agg[k].unit_index = use_unit}
    IN  IF hits = {} THEN [found |-> FALSE, v |-> NoResult]
        ELSE [found |-> TRUE, v |-> agg[CHOOSE k \in hits : \A j \in hits : k <= j]]

\* main(): real_units, after the --unit filter
main_real_units(c, a) ==
    LET selected(u) == u.unit_index = a.v
    IN  IF a.some THEN SelectSeq(real_units(c), selected) ELSE real_units(c)

\* main(): proxy_units, after the --unit filter
main_proxy_units(c, a) ==
    LET selected(u) == u.unit_index = a.v
    IN  IF a.some THEN SelectSeq(proxy_units(c), selected) ELSE proxy_units(c)

\* Mutant: the list is left as it is
sort_by_key_skipped(s) == s

\* Vec::sort_by_key(|a| a.unit_index): a stable sort
RECURSIVE sort_by_key(_)
sort_by_key(s) ==
    IF s = <<>> THEN <<>>
    ELSE LET rest == sort_by_key(SubSeq(s, 1, Len(s) - 1))
             x    == s[Len(s)]
             n    == Cardinality({k \in 1..Len(rest) : rest[k].unit_index <= x.unit_index})
         IN  SubSeq(rest, 1, n) \o <<x>> \o SubSeq(rest, n + 1, Len(rest))

\* Number of iterations of the loop main() is in
LoopLen(c, a, phase) ==
    CASE phase = "refs"  -> Len(c.price_references)
      [] phase = "real"  -> Len(main_real_units(c, a))
      [] phase = "proxy" -> Len(main_proxy_units(c, a))
      [] OTHER           -> 1

\* Mutant: the proxy loop runs before the real unit loop
NextPhase_proxies_before_reals(phase) ==
    CASE phase = "refs"  -> "proxy"
      [] phase = "proxy" -> "real"
      [] phase = "real"  -> "sort"
      [] OTHER           -> "done"

NextPhase(phase) ==
    CASE phase = "refs"  -> "real"
      [] phase = "real"  -> "proxy"
      [] phase = "proxy" -> "sort"
      [] OTHER           -> "done"

\* The first loop at or after `phase` with an iteration to run
RECURSIVE Enter(_, _, _)
Enter(c, a, phase) ==
    IF phase \in {"sort", "done"} \/ LoopLen(c, a, phase) > 0 THEN phase
    ELSE Enter(c, a, NextPhase(phase))

\* End of a loop body: the next iteration, or the next loop
Advance ==
    IF i < LoopLen(cfg, args_unit, pc)
    THEN pc' = pc /\ i' = i + 1
    ELSE pc' = Enter(cfg, args_unit, NextPhase(pc)) /\ i' = 1

\* Mutant: the reference's aggregate is also pushed to the result list
FetchReference_publishes ==
    /\ pc = "refs"
    /\ LET ref_entry == cfg.price_references[i]
           ref_unit  == to_unit_config_for_fetch(ref_entry)
       IN  \E fetch_results \in fetch_all(ref_unit) :
               LET agg == aggregate(0, successful(fetch_results))
               IN  /\ reference_prices' = Insert(reference_prices, ref_entry.id, agg)
                   /\ aggregated' = Append(aggregated, agg)
    /\ Advance
    /\ UNCHANGED <<data, result, cfg, accepted, args_unit, warnings, table, forexVars>>

\* for ref_entry in &cfg.price_references { ... }
FetchReference ==
    /\ pc = "refs"
    /\ LET ref_entry == cfg.price_references[i]
           ref_unit  == to_unit_config_for_fetch(ref_entry)
       IN  \E fetch_results \in fetch_all(ref_unit) :
               reference_prices' =
                   Insert(reference_prices, ref_entry.id,
                          aggregate(0, successful(fetch_results)))
    /\ Advance
    /\ UNCHANGED <<data, result, cfg, accepted, args_unit, aggregated, warnings, table, forexVars>>

\* Mutant: a real unit no source answered for gets no entry
FetchUnit_skips_no_data ==
    /\ pc = "real"
    /\ LET unit == main_real_units(cfg, args_unit)[i]
       IN  \E fetch_results \in fetch_all(unit) :
               aggregated' =
                   IF successful(fetch_results) = <<>> THEN aggregated
                   ELSE Append(aggregated,
                               aggregate(unit.unit_index, successful(fetch_results)))
    /\ Advance
    /\ UNCHANGED <<data, result, cfg, accepted, args_unit, reference_prices, warnings, table, forexVars>>

\* for unit in &real_units { ... }
FetchUnit ==
    /\ pc = "real"
    /\ LET unit == main_real_units(cfg, args_unit)[i]
       IN  \E fetch_results \in fetch_all(unit) :
               aggregated' =
                   Append(aggregated, aggregate(unit.unit_index, successful(fetch_results)))
    /\ Advance
    /\ UNCHANGED <<data, result, cfg, accepted, args_unit, reference_prices, warnings, table, forexVars>>

\* Mutant: a target that was fetched with no quotes counts as not found
lookup_skips_no_data(source, agg, refs) ==
    LET r == IF source.kind = "unit" THEN find(agg, source.unit) ELSE Get(refs, source.id)
    IN  IF r.found /\ r.v.per_source = <<>> THEN [found |-> FALSE, v |-> NoResult] ELSE r

\* The lookup of a proxy's target
lookup(source, agg, refs) ==
    IF source.kind = "unit" THEN find(agg, source.unit) ELSE Get(refs, source.id)

\* Mutant: the proxy keeps the target's contract
proxied_keeps_contract(source_agg, proxy_unit) ==
    [source_agg EXCEPT !.unit_index = proxy_unit.unit_index,
                       !.name = proxy_unit.name,
                       !.sources = <<"proxy">>]

\* The clone of the target relabelled as the proxy unit
proxied(source_agg, proxy_unit) ==
    [source_agg EXCEPT !.unit_index = proxy_unit.unit_index,
                       !.name = proxy_unit.name,
                       !.contract = proxy_unit.contract,
                       !.sources = <<"proxy">>]

\* if let Some(source_agg) = source_agg { ... aggregated.push(proxied) }
ProxyFound(source_agg, proxy_unit) ==
    /\ aggregated' = Append(aggregated, proxied(source_agg, proxy_unit))
    /\ UNCHANGED warnings

\* Mutant: a proxy whose target is missing gets the no-data result
ProxyNotFound_pushes_sentinel(source, proxy_unit) ==
    /\ warnings' = Append(warnings, [unit_index |-> proxy_unit.unit_index, source |-> source])
    /\ aggregated' = Append(aggregated, aggregate(proxy_unit.unit_index, <<>>))

\* else { warn!("unit {} ({}) proxy {} {} not found or not fetched") }
ProxyNotFound(source, proxy_unit) ==
    /\ warnings' = Append(warnings, [unit_index |-> proxy_unit.unit_index, source |-> source])
    /\ UNCHANGED aggregated

\* Mutant: a proxy whose target is missing is retried until it resolves
ResolveProxy_retries_unresolved ==
    /\ pc = "proxy"
    /\ LET proxy_unit == main_proxy_units(cfg, args_unit)[i]
           source     == resolve_proxy_source(proxy_unit.unit_index, proxy_unit.price_proxy)
           source_agg == lookup(source, aggregated, reference_prices)
       IN  IF source.kind = "err"
           THEN pc' = "failed" /\ UNCHANGED <<i, aggregated, warnings>>
           ELSE IF source_agg.found
                THEN ProxyFound(source_agg.v, proxy_unit) /\ Advance
                ELSE ProxyNotFound(source, proxy_unit) /\ UNCHANGED <<pc, i>>
    /\ UNCHANGED <<data, result, cfg, accepted, args_unit, reference_prices, table, forexVars>>

\* for proxy_unit in &proxy_units { ... }
ResolveProxy ==
    /\ pc = "proxy"
    /\ LET proxy_unit == main_proxy_units(cfg, args_unit)[i]
           source     == resolve_proxy_source(proxy_unit.unit_index, proxy_unit.price_proxy)
           source_agg == lookup(source, aggregated, reference_prices)
       IN  IF source.kind = "err"
           THEN pc' = "failed" /\ UNCHANGED <<i, aggregated, warnings>>
           ELSE /\ IF source_agg.found
                   THEN ProxyFound(source_agg.v, proxy_unit)
                   ELSE ProxyNotFound(source, proxy_unit)
                /\ Advance
    /\ UNCHANGED <<data, result, cfg, accepted, args_unit, reference_prices, table, forexVars>>

\* aggregated.sort_by_key(|a| a.unit_index)
Sort ==
    /\ pc = "sort"
    /\ aggregated' = sort_by_key(aggregated)
    /\ pc' = "done"
    /\ UNCHANGED <<data, result, cfg, accepted, args_unit, i, reference_prices, warnings, table,
                   forexVars>>

-----------------------------------------------------------------------------
(* output.rs                                                               *)

\* format!("{}", x): the shortest decimal text that reads back as x
fmt_display(x) == [text |-> "{}", value |-> x]

\* n / d rounded to the nearest integer, ties to even (d > 0)
RoundHalfEven(n, d) ==
    LET q == n \div d
        r == n % d
    IN  IF 2 * r < d THEN q
        ELSE IF 2 * r > d THEN q + 1
        ELSE IF q % 2 = 0 THEN q ELSE q + 1

\* Option<f64>.map(|v| format!("{:.places}", v)).unwrap_or_default(): the value
\* rounded to `places` decimals, as a count of 10^-places; "" for None
fmt_fixed(v, places) ==
    IF v = NoneF THEN [text |-> "", places |-> 0, digits |-> 0]
    ELSE IF v.k = "fin"
    THEN [text |-> "fixed", places |-> places,
          digits |-> RoundHalfEven(v.n * 10 ^ places, v.d)]
    ELSE [text |-> v.k, places |-> places, digits |-> v.n]

\* ZFuel::from_str (external crate): Ok(the amount the text denotes) or Err.
\* Which texts it accepts is not known here; zfuel_ok tells whether it accepts
\* the texts of this call.
ZFuel_from_str(text, zfuel_ok) ==
    IF zfuel_ok THEN [ok |-> TRUE, v |-> [zfuel |-> text]]
    ELSE [ok |-> FALSE, v |-> [zfuel |-> text]]

\* types::ConversionData
ConversionData(current_price, volume, net_change, sources, contract) ==
    [current_price |-> current_price, volume |-> volume, net_change |-> net_change,
     sources |-> sources, contract |-> contract]

\* Result<ConversionTable>::Err
TableErr == [none |-> FALSE, ok |-> FALSE]

\* Mutant: invalid results are published too
conversion_data_publishes_invalid(data_map, results, zfuel_ok) ==
    LET Step[k \in 0..Len(results)] ==
            IF k = 0 THEN [ok |-> TRUE, data |-> data_map]
            ELSE LET before == Step[k - 1]
                     r == results[k]
                     current_price == ZFuel_from_str(fmt_display(r.avg_price_usd), zfuel_ok)
                 IN  IF ~before.ok THEN before
                     ELSE IF ~current_price.ok THEN [ok |-> FALSE, data |-> before.data]
                     ELSE [ok |-> TRUE,
                           data |-> Insert(before.data, ToString(r.unit_index),
                                           ConversionData(current_price.v,
                                                          fmt_fixed(r.volume_24h, 2),
                                                          fmt_fixed(r.price_change_24h, 4),
                                                          r.sources, SomeS(r.contract)))]
    IN  Step[Len(results)]

\* for r in results { if !r.valid { continue; } ...; data.insert(..) }
conversion_data(data_map, results, zfuel_ok) ==
    LET Step[k \in 0..Len(results)] ==
            IF k = 0 THEN [ok |-> TRUE, data |-> data_map]
            ELSE LET before == Step[k - 1]
                     r == results[k]
                     current_price == ZFuel_from_str(fmt_display(r.avg_price_usd), zfuel_ok)
                 IN  IF ~before.ok \/ ~r.valid THEN before
                     ELSE IF ~current_price.ok THEN [ok |-> FALSE, data |-> before.data]
                     ELSE [ok |-> TRUE,
                           data |-> Insert(before.data, ToString(r.unit_index),
                                           ConversionData(current_price.v,
                                                          fmt_fixed(r.volume_24h, 2),
                                                          fmt_fixed(r.price_change_24h, 4),
                                                          r.sources, SomeS(r.contract)))]
    IN  Step[Len(results)]

\* for rate in forex_rates { ...; output_forex_rates.push(ForexRate { .. }) }
output_forex_rates(forex_rates, zfuel_ok) ==
    IF forex_rates # <<>> /\ ~zfuel_ok THEN [ok |-> FALSE, rates |-> <<>>]
    ELSE [ok |-> TRUE,
          rates |-> [k \in 1..Len(forex_rates) |->
                        [symbol |-> forex_rates[k].symbol,
                         name |-> forex_rates[k].name,
                         rate |-> ZFuel_from_str(fmt_display(forex_rates[k].foreign_per_usd),
                                                 zfuel_ok).v]]]

build_conversion_table(results, forex_rates, global_definition, zfuel_ok) ==
    LET conv  == conversion_data([x \in {} |-> NoResult], results, zfuel_ok)
        forex == output_forex_rates(forex_rates, zfuel_ok)
    IN  IF ~conv.ok \/ ~forex.ok THEN TableErr
        ELSE [none |-> FALSE, ok |-> TRUE,
              reference_unit |-> [symbol |-> "$", name |-> "US Dollar"],
              data |-> conv.data,
              forex_rates |-> forex.rates,
              additional_data |-> NoneS,
              global_definition |-> IF global_definition.some THEN global_definition.v
                                    ELSE "000000"]

\* main() after the sort: --dry-run and --output json build the table with no
\* global definition; --submit fetches the global definition first (the fetch
\* may fail, and main() returns the error) and builds the table with it;
\* --output table prints the results and builds no table.
Publish ==
    /\ pc = "done"
    /\ \E mode \in {"dry_run", "submit", "json", "table"}, zfuel_ok \in BOOLEAN,
          global_def \in {NoneS, SomeS("uhCkk")} :
          table' = CASE mode = "table" -> NoResult
                     [] mode = "submit" ->
                          IF global_def.some
                          THEN build_conversion_table(aggregated, <<>>, global_def, zfuel_ok)
                          ELSE NoResult
                     [] OTHER -> build_conversion_table(aggregated, <<>>, NoneS, zfuel_ok)
    /\ pc' = "end"
    /\ UNCHANGED <<data, result, cfg, accepted, args_unit, i, reference_prices, aggregated,
                   warnings, forexVars>>

-----------------------------------------------------------------------------
(* Specification Spec: main() from a loaded (validated) configuration to   *)
(* the sorted result list.                                                 *)

MaxUnits == 3

UnitNames == <<"WETH", "USDC", "DAI", "WBTC", "LINK">>

UnitContracts == <<"0xa1", "0xa2", "0xa3", "0xa4", "0xa5">>

RefIds == {"eth"}

Injective(s) == \A j, k \in 1..Len(s) : s[j] = s[k] => j = k

\* price_references lists without duplicate ids
RefLists ==
    {[k \in 1..Len(ids) |-> PriceReference(ids[k], "Ether", "0xeee")] :
        ids \in {s \in SeqsUpTo(RefIds, Cardinality(RefIds)) : Injective(s)}}

\* unit_index lists without duplicates.  Only the relative order of the
\* indexes matters to main() (the final sort), so a list of n units uses the
\* indexes 1..n, ascending or descending in configuration order.
IndexLists ==
    UNION {{[k \in 1..n |-> k], [k \in 1..n |-> n + 1 - k]} : n \in 0..MaxUnits}

\* --unit: absent, or naming a unit index
UnitFilters == {NoneU} \cup {SomeU(k) : k \in 1..MaxUnits}

\* The price_proxy values validate() accepts for a unit of the list
ProxyChoices(idxs, refs) ==
    {NoProxy}
    \cup {PriceProxy(SomeU(idxs[k]), NoneS) : k \in 1..Len(idxs)}
    \cup {PriceProxy(NoneU, SomeS(refs[k].id)) : k \in 1..Len(refs)}

MkConfig(refs, idxs, px) ==
    [price_references |-> refs,
     units |-> [k \in 1..Len(idxs) |->
                   UnitConfig(idxs[k], UnitNames[idxs[k]], UnitContracts[idxs[k]], px[k])]]

\* Config::load has returned Ok: the configuration passed validate()
Init ==
    /\ \E refs \in RefLists, idxs \in IndexLists :
          \E px \in [1..Len(idxs) -> ProxyChoices(idxs, refs)] :
              cfg = MkConfig(refs, idxs, px)
    /\ validate(cfg) = "ok"
    /\ accepted = "ok"
    /\ args_unit \in UnitFilters
    /\ pc = Enter(cfg, args_unit, "refs")
    /\ i = 1
    /\ reference_prices = EmptyMap
    /\ aggregated = <<>>
    /\ warnings = <<>>
    /\ table = NoResult
    /\ IdleAggregate
    /\ IdleForex

Next == FetchReference \/ FetchUnit \/ ResolveProxy \/ Sort \/ Publish

Spec == Init /\ [][Next]_vars

-----------------------------------------------------------------------------
(* Claims about proxy resolution                                           *)

\* The proxy units of the configuration
CfgProxies == {cfg.units[k] : k \in {j \in 1..Len(cfg.units) : cfg.units[j].price_proxy.some}}

\* The real units of the configuration
CfgReals == {cfg.units[k] : k \in {j \in 1..Len(cfg.units) : ~cfg.units[j].price_proxy.some}}

\* Position of the unit with this index in the configured unit list
Pos(idx) == CHOOSE k \in 1..Len(cfg.units) : cfg.units[k].unit_index = idx

\* The unit is processed by this run (no --unit filter, or the filter names it)
Selected(u) == ~args_unit.some \/ args_unit.v = u.unit_index

\* The results carrying this unit index
ResultsFor(idx) == {k \in 1..Len(aggregated) : aggregated[k].unit_index = idx}

HasResult(idx) == ResultsFor(idx) # {}

TargetsUnit(p, idx) == p.price_proxy.use_unit.some /\ p.price_proxy.use_unit.v = idx

TargetsRef(p, id) == p.price_proxy.use_reference.some /\ p.price_proxy.use_reference.v = id

\* The proxy's target was fetched and every provider fetch failed: the
\* targeted real unit, or the targeted reference, ended with zero quotes.
TargetHasNoQuotes(p) ==
    \/ \E u \in CfgReals :
          /\ TargetsUnit(p, u.unit_index)
          /\ \E k \in ResultsFor(u.unit_index) : aggregated[k].per_source = <<>>
    \/ \E id \in DOMAIN reference_prices :
          /\ TargetsRef(p, id)
          /\ reference_prices[id].per_source = <<>>

\* C4 as stated: when every fetch for a proxy's target failed, no result with
\* the proxy's unit index is in the final collection.
C4_Original ==
    pc = "done" =>
        \A p \in CfgProxies : TargetHasNoQuotes(p) => ~HasResult(p.unit_index)

\* C4 amended: when every fetch for a proxy's target failed, the target still
\* has its no-data aggregate, the lookup finds it, and the final collection
\* holds exactly one result with the proxy's unit index (for every proxy the
\* run processes): invalid, price 0, sources = ["proxy"].
C4_NoDataTargetYieldsInvalidProxy ==
    pc = "done" =>
        \A p \in CfgProxies :
            (TargetHasNoQuotes(p) /\ Selected(p)) =>
                /\ Cardinality(ResultsFor(p.unit_index)) = 1
                /\ \A k \in ResultsFor(p.unit_index) :
                      /\ ~aggregated[k].valid
                      /\ aggregated[k].avg_price_usd = FromInt(0)
                      /\ aggregated[k].sources = <<"proxy">>

\* C4 witness: a finished run with a proxy of a real unit that got no quotes and
\* a proxy of a reference that got no quotes, both present in the collection.
C4_Witness ==
    /\ pc = "done"
    /\ \E p, q \in CfgProxies :
          /\ p.price_proxy.use_unit.some
          /\ q.price_proxy.use_reference.some
          /\ TargetHasNoQuotes(p) /\ TargetHasNoQuotes(q)
          /\ HasResult(p.unit_index) /\ HasResult(q.unit_index)

\* The proxy being processed, and its target, in a state with pc = "proxy"
CurProxy == main_proxy_units(cfg, args_unit)[i]

\* C5: when the target unit index of the proxy being processed is not in the
\* accumulated results, the step appends nothing, changes no accumulated result
\* and no reference aggregate, and moves on to the next proxy (or, after the
\* last one, to the sort).
C5_MissingTargetChangesNothing ==
    [][(/\ pc = "proxy"
        /\ CurProxy.price_proxy.use_unit.some
        /\ ~HasResult(CurProxy.price_proxy.use_unit.v))
       => (/\ aggregated' = aggregated
           /\ reference_prices' = reference_prices
           /\ IF i < Len(main_proxy_units(cfg, args_unit))
              THEN pc' = "proxy" /\ i' = i + 1
              ELSE pc' = "sort")]_vars

\* C5 witness: a proxy with a missing target unit has been skipped while results
\* and a reference aggregate were already accumulated, and the next proxy is up.
C5_Witness ==
    /\ pc = "proxy"
    /\ i >= 2
    /\ aggregated # <<>>
    /\ DOMAIN reference_prices # {}
    /\ \E k \in 1..Len(warnings) :
          /\ warnings[k].source.kind = "unit"
          /\ warnings[k].unit_index = main_proxy_units(cfg, args_unit)[i - 1].unit_index

\* The new result is the target's aggregate relabelled as the proxy unit
IsProxyOf(r, t, p) ==
    /\ r.unit_index = p.unit_index
    /\ r.name = p.name
    /\ r.contract = p.contract
    /\ r.sources = <<"proxy">>
    /\ r.avg_price_usd = t.avg_price_usd
    /\ r.volume_24h = t.volume_24h
    /\ r.price_change_24h = t.price_change_24h
    /\ r.valid = t.valid

\* C6: when the target of the proxy being processed is found (a result with the
\* target unit index, or the reference id in the reference map), exactly one
\* result is appended; it carries the proxy unit's unit_index, name and
\* contract, sources = ["proxy"], and the target's avg_price_usd, volume_24h,
\* price_change_24h and valid; the results accumulated before and the reference
\* map are unchanged.
C6_FoundTargetIsCloned ==
    [][(pc = "proxy") =>
        /\ (/\ CurProxy.price_proxy.use_unit.some
            /\ HasResult(CurProxy.price_proxy.use_unit.v))
           => /\ Len(aggregated') = Len(aggregated) + 1
              /\ SubSeq(aggregated', 1, Len(aggregated)) = aggregated
              /\ reference_prices' = reference_prices
              /\ \A k \in ResultsFor(CurProxy.price_proxy.use_unit.v) :
                    IsProxyOf(aggregated'[Len(aggregated')], aggregated[k], CurProxy)
        /\ (/\ CurProxy.price_proxy.use_reference.some
            /\ CurProxy.price_proxy.use_reference.v \in DOMAIN reference_prices)
           => /\ Len(aggregated') = Len(aggregated) + 1
              /\ SubSeq(aggregated', 1, Len(aggregated)) = aggregated
              /\ reference_prices' = reference_prices
              /\ IsProxyOf(aggregated'[Len(aggregated')],
                           reference_prices[CurProxy.price_proxy.use_reference.v], CurProxy)
      ]_vars

\* C6 witness: the last result is a proxy's copy of an invalid two-quote target
\* that is still in the list, unmodified, under its own identity.
C6_Witness ==
    /\ Len(aggregated) >= 2
    /\ LET r == aggregated[Len(aggregated)]
       IN  /\ r.sources = <<"proxy">>
           /\ ~r.valid
           /\ Len(r.per_source) = 2
           /\ \E p \in CfgProxies, k \in 1..(Len(aggregated) - 1) :
                 /\ p.unit_index = r.unit_index
                 /\ TargetsUnit(p, aggregated[k].unit_index)
                 /\ aggregated[k].sources = <<"geckoterminal", "coingecko">>
                 /\ ~aggregated[k].valid
                 /\ aggregated[k].contract # r.contract
                 /\ IsProxyOf(r, aggregated[k], p)

\* C7: at the end of the run, a processed proxy P whose target is another proxy
\* Q has a result iff Q is processed, stands before P in configuration order,
\* and has a result itself.
C7_ChainNeedsEarlierProxy ==
    pc = "done" =>
        \A p, q \in CfgProxies :
            (Selected(p) /\ TargetsUnit(p, q.unit_index)) =>
                (HasResult(p.unit_index) <=>
                    (/\ Selected(q)
                     /\ Pos(q.unit_index) < Pos(p.unit_index)
                     /\ HasResult(q.unit_index)))

\* C7 witness: Q resolved; P1 targets Q and stands before it (no result); P2
\* targets Q and stands after it (result).
C7_Witness ==
    /\ pc = "done"
    /\ \E p1, q, p2 \in CfgProxies :
          /\ TargetsUnit(p1, q.unit_index) /\ TargetsUnit(p2, q.unit_index)
          /\ Pos(p1.unit_index) < Pos(q.unit_index)
          /\ Pos(q.unit_index) < Pos(p2.unit_index)
          /\ HasResult(q.unit_index)
          /\ ~HasResult(p1.unit_index)
          /\ HasResult(p2.unit_index)

\* The real units this run processes
SelectedReals == {u \in CfgReals : Selected(u)}

\* C17: after the sort (when the results go to the table builder) the results,
\* real units and resolved proxies, are in non-decreasing unit_index order,
\* whatever the configuration order; every processed real unit is among them.
C17_SortedByUnitIndex ==
    pc \in {"done", "end"} =>
        /\ \A j, k \in 1..Len(aggregated) :
              j < k => aggregated[j].unit_index <= aggregated[k].unit_index
        /\ \A u \in SelectedReals : HasResult(u.unit_index)

\* C17 witness: a resolved proxy whose index is below a real unit's (it was
\* appended after it), and two real units configured in descending order.
C17_Witness ==
    /\ pc = "done"
    /\ Len(aggregated) = 3
    /\ \E p \in CfgProxies, u, v \in CfgReals :
          /\ HasResult(p.unit_index)
          /\ p.unit_index < u.unit_index
          /\ u.unit_index > v.unit_index
          /\ Pos(u.unit_index) < Pos(v.unit_index)

\* The configuration of the end-to-end example: real units 1 and 2 and proxy
\* unit 3 targeting unit 1, all processed
ExampleConfig ==
    /\ ~args_unit.some
    /\ {u.unit_index : u \in CfgReals} = {1, 2}
    /\ {u.unit_index : u \in CfgProxies} = {3}
    /\ \A p \in CfgProxies : TargetsUnit(p, 1)

\* The quotes of the example: unit 1 got 1.00 and 1.01, unit 2 got none
ExampleQuotes ==
    /\ \E k \in ResultsFor(1) : prices(aggregated[k].per_source) = <<F(100, 100), F(101, 100)>>
    /\ \E k \in ResultsFor(2) : aggregated[k].per_source = <<>>

\* C19: in the end-to-end example the valid results are exactly unit 1 (price
\* 1.005) and unit 3 (price 1.005, sources = ["proxy"]); unit 2 is invalid and
\* dropped; a table that is built holds exactly units 1 and 3.
C19_EndToEndExample ==
    (pc \in {"done", "end"} /\ ExampleConfig /\ ExampleQuotes) =>
        /\ Len(aggregated) = 3
        /\ aggregated[1].unit_index = 1 /\ aggregated[1].valid
        /\ aggregated[1].avg_price_usd = F(1005, 1000)
        /\ aggregated[2].unit_index = 2 /\ ~aggregated[2].valid
        /\ aggregated[3].unit_index = 3 /\ aggregated[3].valid
        /\ aggregated[3].avg_price_usd = F(1005, 1000)
        /\ aggregated[3].sources = <<"proxy">>
        /\ (table # NoResult /\ table.ok) =>
              /\ DOMAIN table.data = {"1", "3"}
              /\ table.data["1"].current_price = [zfuel |-> fmt_display(F(1005, 1000))]
              /\ table.data["3"].current_price = [zfuel |-> fmt_display(F(1005, 1000))]
              /\ table.data["3"].sources = <<"proxy">>

\* C19 witness: the example has run and its table is built.
C19_Witness ==
    /\ pc = "end"
    /\ ExampleConfig
    /\ ExampleQuotes
    /\ table # NoResult
    /\ table.ok
    /\ DOMAIN table.data = {"1", "3"}

\* C20: whenever main() is in the proxy loop, the aggregate of every price
\* reference is in the reference map and the aggregate of every processed real
\* unit is in the result list: no proxy is looked up before.
C20_ProxiesAfterAllAggregation ==
    pc = "proxy" =>
        /\ \A k \in 1..Len(cfg.price_references) :
              cfg.price_references[k].id \in DOMAIN reference_prices
        /\ \A u \in SelectedReals : HasResult(u.unit_index)

\* C20 witness: the first proxy is about to be looked up, after one reference
\* and two real units were aggregated.
C20_Witness ==
    /\ pc = "proxy"
    /\ i = 1
    /\ Len(cfg.price_references) = 1
    /\ Cardinality(SelectedReals) = 2
    /\ Len(aggregated) = 2
    /\ DOMAIN reference_prices = {"eth"}

\* The contracts of the configured price references
RefContracts == {cfg.price_references[k].contract : k \in 1..Len(cfg.price_references)}

\* The result was computed from quotes fetched for a price reference
FromReference(r) == \E k \in 1..Len(r.per_source) : r.per_source[k].contract \in RefContracts

\* C21: no reference aggregate is in the result list as it is in the reference
\* map; a result computed from a reference's quotes carries a proxy unit's
\* unit_index, name and contract, and sources = ["proxy"].
C21_ReferencesOnlyAsProxyCopies ==
    \A k \in 1..Len(aggregated) :
        /\ \A id \in DOMAIN reference_prices : aggregated[k] # reference_prices[id]
        /\ FromReference(aggregated[k]) =>
              \E p \in CfgProxies :
                  /\ aggregated[k].unit_index = p.unit_index
                  /\ aggregated[k].name = p.name
                  /\ aggregated[k].contract = p.contract
                  /\ aggregated[k].sources = <<"proxy">>

\* C21 witness: a reference was aggregated from two quotes, a proxy of it is in
\* the final list, and the list holds nothing else.
C21_Witness ==
    /\ pc = "done"
    /\ DOMAIN reference_prices = {"eth"}
    /\ Len(reference_prices["eth"].per_source) = 2
    /\ Len(aggregated) = 1
    /\ FromReference(aggregated[1])
    /\ aggregated[1].avg_price_usd = reference_prices["eth"].avg_price_usd

-----------------------------------------------------------------------------
(* Specification SpecValidate: Config::load applies validate() to every    *)
(* configuration a YAML file of at most MaxUnits units can hold.           *)

MaxRefs == 2

\* Every price_proxy a unit entry can carry, well-formed or not
RawProxies ==
    {NoProxy, PriceProxy(NoneU, NoneS), PriceProxy(SomeU(1), SomeS("eth"))}
    \cup {PriceProxy(SomeU(j), NoneS) : j \in 1..MaxUnits}
    \cup {PriceProxy(NoneU, SomeS(id)) : id \in RefIds \cup {"btc"}}

RawUnits ==
    {UnitConfig(idx, UnitNames[idx], UnitContracts[idx], px) :
        idx \in 1..MaxUnits, px \in RawProxies}

RawRefs == {PriceReference(id, "Ether", "0xeee") : id \in RefIds}

InitValidate ==
    /\ cfg \in [price_references : SeqsUpTo(RawRefs, MaxRefs),
                units : SeqsUpTo(RawUnits, MaxUnits)]
    /\ accepted = "pending"
    /\ args_unit = NoneU
    /\ pc = "idle"
    /\ i = 1
    /\ reference_prices = EmptyMap
    /\ aggregated = <<>>
    /\ warnings = <<>>
    /\ table = NoResult
    /\ IdleAggregate
    /\ IdleForex

\* Config::load: config.validate()?
Load ==
    /\ accepted = "pending"
    /\ accepted' = validate(cfg)
    /\ UNCHANGED <<data, result, cfg, args_unit, pc, i, reference_prices, aggregated,
                   warnings, table, forexVars>>

NextValidate == Load

SpecValidate == InitValidate /\ [][NextValidate]_vars

\* The unit indexes reached from the indexes in S by one to n use_unit links
RECURSIVE ReachIn(_, _, _)
ReachIn(c, S, n) ==
    IF n = 0 THEN {}
    ELSE LET step == {c.units[k].price_proxy.use_unit.v :
                         k \in {j \in 1..Len(c.units) :
                                   /\ c.units[j].unit_index \in S
                                   /\ c.units[j].price_proxy.some
                                   /\ c.units[j].price_proxy.use_unit.some}}
         IN  step \cup ReachIn(c, step, n - 1)

\* Following use_unit links from a unit never leads back to it
Acyclic(c) ==
    \A k \in 1..Len(c.units) :
        c.units[k].unit_index \notin ReachIn(c, {c.units[k].unit_index}, Len(c.units))

\* C8 as stated: every configuration validate() accepts has an acyclic proxy
\* graph (no use_unit cycle of any length).
C8_Original == accepted = "ok" => Acyclic(cfg)

\* Positions of the proxy definitions in the configuration's unit list
ProxyDefs == {k \in 1..Len(cfg.units) : is_proxy(cfg.units[k])}

\* What main's proxy loop gets from resolve_proxy_source for units[k]; an Err
\* is propagated by `?` and ends the run before the sort
SourceOf(k) == resolve_proxy_source(cfg.units[k].unit_index, cfg.units[k].price_proxy)

-----------------------------------------------------------------------------
(* Claims about proxy cycles and the result collection                     *)

\* The proxy unit lies on a cycle of use_unit links
OnCycle(u) == u.unit_index \in ReachIn(cfg, {u.unit_index}, Len(cfg.units))

\* Positions of the warnings logged for the proxy unit with this index
WarningsFor(idx) == {k \in 1..Len(warnings) : warnings[k].unit_index = idx}

\* Number of proxy units the proxy loop has still to visit
ProxiesLeft ==
    CASE pc \in {"refs", "real"} -> Len(main_proxy_units(cfg, args_unit))
      [] pc = "proxy"            -> Len(main_proxy_units(cfg, args_unit)) - i + 1
      [] OTHER                   -> 0

\* No proxy on a cycle has a result, none is warned about twice, and once the
\* proxy loop is over each selected one has been warned about exactly once
NoCycleResult ==
    \A u \in CfgProxies :
        OnCycle(u) =>
            /\ ~HasResult(u.unit_index)
            /\ Cardinality(WarningsFor(u.unit_index)) <= 1
            /\ (pc \in {"sort", "done", "end"} /\ Selected(u)) =>
                   Cardinality(WarningsFor(u.unit_index)) = 1

\* The visit of a proxy on a cycle logs one warning naming its target, pushes
\* no result, and leaves one proxy fewer to visit; after the last the run is
\* at the sort
CycleVisit ==
    (pc = "proxy" /\ OnCycle(CurProxy)) =>
        /\ aggregated' = aggregated
        /\ warnings' = Append(warnings,
                              [unit_index |-> CurProxy.unit_index,
                               source |-> ProxySourceUnit(CurProxy.price_proxy.use_unit.v)])
        /\ ProxiesLeft' = ProxiesLeft - 1
        /\ pc' \in {"proxy", "sort"}
        /\ pc' = "sort" <=> ProxiesLeft' = 0

\* C23: proxies whose use_unit links form a cycle of length two or more are
\* each visited once by the single pass (every visit leaves one proxy fewer to
\* visit, so the pass terminates) and none of them produces an
\* AggregatedResult.
C23_CyclicProxiesVisitedOnceNoResult == []NoCycleResult /\ [][CycleVisit]_vars

\* The run is past the sort for a configuration of one real unit and two
\* proxies targeting each other: one result, one warning per proxy
C23_Witness ==
    /\ pc = "done"
    /\ Len(aggregated) = 1
    /\ Len(warnings) = 2
    /\ \E u, v \in CfgProxies :
          /\ u # v
          /\ TargetsUnit(u, v.unit_index)
          /\ TargetsUnit(v, u.unit_index)
          /\ OnCycle(u) /\ OnCycle(v)
          /\ Cardinality(WarningsFor(u.unit_index)) = 1
          /\ Cardinality(WarningsFor(v.unit_index)) = 1

\* Number of real units the real unit loop has processed
RealsDone ==
    CASE pc = "refs" -> 0
      [] pc = "real" -> i - 1
      [] OTHER       -> Len(main_real_units(cfg, args_unit))

\* C24: with unique unit indexes, in every state of the run the result list
\* holds at most one result per unit_index, every unit_index in it is that of
\* a configured (and selected) unit, each real unit processed so far has
\* exactly one entry (also when no source answered), each proxy unit at most
\* one, and the published table has one key per valid result.
C24_OneResultPerConfiguredUnit ==
    /\ \A j, k \in 1..Len(aggregated) :
          aggregated[j].unit_index = aggregated[k].unit_index => j = k
    /\ \A k \in 1..Len(aggregated) :
          \E j \in 1..Len(cfg.units) :
              /\ cfg.units[j].unit_index = aggregated[k].unit_index
              /\ Selected(cfg.units[j])
    /\ \A n \in 1..Len(main_real_units(cfg, args_unit)) :
          Cardinality(ResultsFor(main_real_units(cfg, args_unit)[n].unit_index)) =
              IF n <= RealsDone THEN 1 ELSE 0
    /\ \A u \in CfgProxies : Cardinality(ResultsFor(u.unit_index)) <= 1
    /\ (table # NoResult /\ table.ok) =>
          Cardinality(DOMAIN table.data) =
              Cardinality({k \in 1..Len(aggregated) : aggregated[k].valid})

\* The table is published for three units: a real unit no source answered
\* for (one entry, not valid), a real unit with quotes and a proxy of it; the
\* table has the two valid results' keys
C24_Witness ==
    /\ pc = "end"
    /\ table # NoResult
    /\ table.ok
    /\ Len(aggregated) = 3
    /\ Cardinality(DOMAIN table.data) = 2
    /\ \E u \in CfgReals :
          /\ Cardinality(ResultsFor(u.unit_index)) = 1
          /\ \A k \in ResultsFor(u.unit_index) :
                aggregated[k].per_source = <<>> /\ ~aggregated[k].valid
    /\ \E p \in CfgProxies :
          \E k \in ResultsFor(p.unit_index) : aggregated[k].sources = <<"proxy">>

-----------------------------------------------------------------------------
(* Specification SpecTable: build_conversion_table() applied to every list *)
(* of at most MaxResults results.                                          *)

MaxResults == 3

\* AggregatedResult values: a unit's own aggregate (two sources) or a proxy's
\* copy, valid or not, for unit indexes 1 and 2 (lists may repeat an index)
TableResults ==
    {[unit_index |-> idx, name |-> "tok", contract |-> origin[1],
      avg_price_usd |-> price, volume_24h |-> FromInt(15), price_change_24h |-> NoneF,
      sources |-> origin[2], valid |-> valid, per_source |-> <<>>] :
        idx \in {1, 2}, valid \in BOOLEAN, price \in {FromInt(0), F(201, 200)},
        origin \in {<<"0xa1", <<"geckoterminal", "coingecko">>>>, <<"0xa2", <<"proxy">>>>}}

\* forex_rates values
TableForexRates == {<<>>, <<[symbol |-> "EUR", name |-> "Euro", foreign_per_usd |-> F(92, 100)]>>}

InitTable ==
    /\ aggregated \in SeqsUpTo(TableResults, MaxResults)
    /\ table = NoResult
    /\ cfg = EmptyCfg
    /\ accepted = "pending"
    /\ args_unit = NoneU
    /\ pc = "idle"
    /\ i = 1
    /\ reference_prices = EmptyMap
    /\ warnings = <<>>
    /\ IdleAggregate
    /\ IdleForex

CallBuildTable ==
    /\ table = NoResult
    /\ \E forex_rates \in TableForexRates, global_definition \in {NoneS, SomeS("uhCkk")},
          zfuel_ok \in BOOLEAN :
          table' = build_conversion_table(aggregated, forex_rates, global_definition, zfuel_ok)
    /\ UNCHANGED <<data, result, cfg, accepted, args_unit, pc, i, reference_prices, aggregated,
                   warnings, forexVars>>

NextTable == CallBuildTable

SpecTable == InitTable /\ [][NextTable]_vars

-----------------------------------------------------------------------------
(* Claims about build_conversion_table()                                   *)

\* Positions of the valid results carrying this unit index
ValidAt(idx) == {k \in 1..Len(aggregated) : aggregated[k].unit_index = idx /\ aggregated[k].valid}

Max(S) == CHOOSE x \in S : \A y \in S : y <= x

\* C18: the table's data map has an entry for unit index idx iff the result list
\* holds a valid result with that index; invalid results give no entry; the
\* entry's sources and contract are the valid result's (the last one's, should
\* the list repeat the index).
C18_DataHoldsExactlyTheValidResults ==
    (table # NoResult /\ table.ok) =>
        /\ DOMAIN table.data =
              {ToString(aggregated[k].unit_index) :
                  k \in {j \in 1..Len(aggregated) : aggregated[j].valid}}
        /\ \A k \in 1..Len(aggregated) :
              aggregated[k].valid =>
                  LET r == aggregated[Max(ValidAt(aggregated[k].unit_index))]
                      entry == table.data[ToString(r.unit_index)]
                  IN  /\ entry.sources = r.sources
                      /\ entry.contract = SomeS(r.contract)

\* C18 witness: a valid result for unit 1 and an invalid one for unit 2; the
\* table holds unit 1 only.
C18_Witness ==
    /\ table # NoResult
    /\ table.ok
    /\ pc = "idle"
    /\ Len(aggregated) = 2
    /\ aggregated[1].unit_index = 1 /\ aggregated[1].valid
    /\ aggregated[2].unit_index = 2 /\ ~aggregated[2].valid
    /\ DOMAIN table.data = {"1"}
    /\ table.data["1"].sources = aggregated[1].sources

-----------------------------------------------------------------------------
(* forex_aggregate.rs                                                      *)

\* Mutant: rate >= 0.0 instead of rate > 0.0
normalize_accepts_zero(rate) ==
    IF is_finite(rate) /\ FLe(FromInt(0), rate) THEN rate ELSE NoneF

\* normalize_foreign_per_usd: Some(rate) if finite and > 0.0, else None
normalize_foreign_per_usd(rate) ==
    IF is_finite(rate) /\ FGt(rate, FromInt(0)) THEN rate ELSE NoneF

currency_name(symbol) ==
    CASE symbol = "USD" -> "US Dollar"
      [] symbol = "EUR" -> "Euro"
      [] symbol = "GBP" -> "British Pound"
      [] symbol = "JPY" -> "Japanese Yen"
      [] OTHER          -> "Unknown Currency"

\* by_symbol.entry(symbol.clone()).or_default().push((source_name, normalized))
push_rate(by_symbol, symbol, source_name, normalized) ==
    LET before == IF symbol \in DOMAIN by_symbol THEN by_symbol[symbol] ELSE <<>>
    IN  Insert(by_symbol, symbol, Append(before, <<source_name, normalized>>))

\* for symbol in symbols { if let Some(rate) = rates.get(symbol) { ... } }
RECURSIVE collect_source(_, _, _, _)
collect_source(by_symbol, source_name, rates, syms) ==
    IF syms = <<>> THEN by_symbol
    ELSE LET symbol == Head(syms)
             normalized == IF symbol \in DOMAIN rates
                           THEN normalize_foreign_per_usd(rates[symbol])
                           ELSE NoneF
             pushed == IF IsSome(normalized)
                       THEN push_rate(by_symbol, symbol, source_name, normalized)
                       ELSE by_symbol
         IN  collect_source(pushed, source_name, rates, Tail(syms))

\* Mutant: the first failed source ends the loop over the sources
RECURSIVE collect_stops_at_err(_, _, _)
collect_stops_at_err(by_symbol, syms, results) ==
    IF results = <<>> THEN by_symbol
    ELSE LET r == Head(results)
         IN  IF r.ok
             THEN collect_stops_at_err(collect_source(by_symbol, r.name, r.rates, syms),
                                       syms, Tail(results))
             ELSE by_symbol

\* for (source_name, result) in source_results { match result { Ok(rates) => ..., Err(e) => warn } }
RECURSIVE collect(_, _, _)
collect(by_symbol, syms, results) ==
    IF results = <<>> THEN by_symbol
    ELSE LET r == Head(results)
         IN  collect(IF r.ok THEN collect_source(by_symbol, r.name, r.rates, syms)
                     ELSE by_symbol,
                     syms, Tail(results))

\* forex_aggregate::AggregatedForexRate
AggregatedForexRate(symbol, name, foreign_per_usd) ==
    [symbol |-> symbol, name |-> name, foreign_per_usd |-> foreign_per_usd]

\* Mutant: rates more than 1% away from the first source's rate are left out
\* of the published mean
RECURSIVE emit_rejects_outliers(_, _, _)
emit_rejects_outliers(out, by_symbol, syms) ==
    IF syms = <<>> THEN out
    ELSE LET symbol == Head(syms)
         IN  IF symbol \notin DOMAIN by_symbol \/ by_symbol[symbol] = <<>>
             THEN emit_rejects_outliers(out, by_symbol, Tail(syms))
             ELSE LET values == by_symbol[symbol]
                      rates  == [k \in 1..Len(values) |-> values[k][2]]
                      Near(r) == FLe(FDiv(FAbs(FSub(r, rates[1])), rates[1]), F(1, 100))
                      kept   == SelectSeq(rates, Near)
                      pub    == FDiv(FSum(kept), FromInt(Len(kept)))
                  IN  emit_rejects_outliers(
                          Append(out, AggregatedForexRate(symbol, currency_name(symbol), pub)),
                          by_symbol, Tail(syms))

\* for symbol in symbols { ...; aggregated.push(AggregatedForexRate { .. }) }
RECURSIVE emit(_, _, _)
emit(out, by_symbol, syms) ==
    IF syms = <<>> THEN out
    ELSE LET symbol == Head(syms)
         IN  IF symbol \notin DOMAIN by_symbol \/ by_symbol[symbol] = <<>>
             THEN emit(out, by_symbol, Tail(syms))
             ELSE LET values == by_symbol[symbol]
                      rates  == [k \in 1..Len(values) |-> values[k][2]]
                      avg    == FDiv(FSum(rates), FromInt(Len(values)))
                  IN  emit(Append(out, AggregatedForexRate(symbol, currency_name(symbol), avg)),
                           by_symbol, Tail(syms))

aggregate_forex_rates(syms, results) ==
    emit(<<>>, collect([x \in {} |-> <<>>], syms, results), syms)

-----------------------------------------------------------------------------
(* Specification SpecForex: aggregate_forex_rates() applied to every       *)
(* request of at most MaxSymbols symbols and the results of the registered *)
(* forex sources.                                                          *)

MaxSymbols == 3

\* Requested currency symbols ("XAU" has no entry in currency_name)
ForexSymbols == {"EUR", "XAU"}

\* Raw rates a source may report: zero, negative, NaN, +inf, and two accepted
\* values more than 1% apart
ForexRates == {FromInt(0), FromInt(-1), NaN, Inf(1), FromInt(100), FromInt(120)}

\* HashMap<String, f64>: any partial map
RateMaps == UNION {[S -> ForexRates] : S \in SUBSET ForexSymbols}

\* (source_name, Result<HashMap<String, f64>>)
ForexErr(name) == [name |-> name, ok |-> FALSE, rates |-> [x \in {} |-> NaN]]

ForexOk(name, rates) == [name |-> name, ok |-> TRUE, rates |-> rates]

\* ForexSourceRegistry::new: Twelve Data and CoinAPI, each if enabled and keyed
ForexRegistries == {<<>>, <<"twelve_data">>, <<"coinapi">>, <<"twelve_data", "coinapi">>}

\* ForexSourceRegistry::fetch_all: one result per registered source, in order
forex_fetch_all(registry) ==
    {r \in [1..Len(registry) -> {ForexErr(n) : n \in {"twelve_data", "coinapi"}}
                                \cup {ForexOk(n, m) : n \in {"twelve_data", "coinapi"},
                                                      m \in RateMaps}] :
        \A k \in 1..Len(registry) : r[k].name = registry[k]}

InitForex ==
    /\ symbols \in SeqsUpTo(ForexSymbols, MaxSymbols)
    /\ \E registry \in ForexRegistries : source_results \in forex_fetch_all(registry)
    /\ forex_out = NoResult
    /\ IdleAggregate
    /\ IdleMain

CallAggregateForex ==
    /\ forex_out = NoResult
    /\ forex_out' = [none |-> FALSE, rates |-> aggregate_forex_rates(symbols, source_results)]
    /\ UNCHANGED <<data, result, mainVars, symbols, source_results>>

NextForex == CallAggregateForex

SpecForex == InitForex /\ [][NextForex]_vars

-----------------------------------------------------------------------------
(* Claims about aggregate_forex_rates()                                    *)

\* The symbols of the output, in output order
OutSymbols == [k \in 1..Len(forex_out.rates) |-> forex_out.rates[k].symbol]

\* s is a subsequence of t: s is t with some elements left out
RECURSIVE IsSubseq(_, _)
IsSubseq(s, t) ==
    IF s = <<>> THEN TRUE
    ELSE IF t = <<>> THEN FALSE
    ELSE IF Head(s) = Head(t) THEN IsSubseq(Tail(s), Tail(t))
    ELSE IsSubseq(s, Tail(t))

\* C9 as stated: the output lists its symbols in the relative order of the input
\* list and no symbol appears twice in it, also when the input repeats a symbol.
C9_Original ==
    forex_out # NoResult =>
        /\ IsSubseq(OutSymbols, symbols)
        /\ Injective(OutSymbols)

\* Some non-failed source reports a finite, strictly positive rate for sym
HasAcceptedRate(sym) ==
    \E k \in 1..Len(source_results) :
        /\ source_results[k].ok
        /\ sym \in DOMAIN source_results[k].rates
        /\ source_results[k].rates[sym].k = "fin"
        /\ source_results[k].rates[sym].n > 0

Requested == {symbols[k] : k \in 1..Len(symbols)}

\* C10: a requested symbol is in the output iff some non-failed source reports
\* a finite, strictly positive rate for it; every emitted rate is finite and
\* strictly positive (never a null or zero placeholder).
C10_InOutputIffAcceptedRate ==
    forex_out # NoResult =>
        /\ \A sym \in Requested :
              (\E k \in 1..Len(OutSymbols) : OutSymbols[k] = sym) <=> HasAcceptedRate(sym)
        /\ \A k \in 1..Len(forex_out.rates) :
              /\ forex_out.rates[k].foreign_per_usd.k = "fin"
              /\ forex_out.rates[k].foreign_per_usd.n > 0

\* C10 witness: two requested symbols; one is reported by both sources, only
\* with a zero and a non-finite rate, and is absent; the other is reported
\* by one source with an accepted rate, and is present.
C10_Witness ==
    /\ forex_out # NoResult
    /\ symbols = <<"EUR", "XAU">>
    /\ Len(source_results) = 2
    /\ source_results[1].ok /\ source_results[2].ok
    /\ DOMAIN source_results[1].rates = {"EUR", "XAU"}
    /\ source_results[1].rates["EUR"] = FromInt(0)
    /\ "EUR" \in DOMAIN source_results[2].rates
    /\ source_results[2].rates["EUR"] = Inf(1)
    /\ OutSymbols = <<"XAU">>

\* results without its k-th element
RemoveAt(results, k) ==
    [j \in 1..(Len(results) - 1) |-> IF j < k THEN results[j] ELSE results[j + 1]]

\* results with its k-th source answering Ok with an empty mapping
EmptiedAt(results, k) ==
    [results EXCEPT ![k] = ForexOk(results[k].name, [x \in {} |-> NaN])]

\* C11: a failed source does not abort the aggregation and contributes to no
\* symbol: the output equals the output computed without that source, and the
\* output computed with that source answering an empty mapping, wherever the
\* failed source stands in the list.
C11_FailedSourceContributesNothing ==
    forex_out # NoResult =>
        \A k \in 1..Len(source_results) :
            ~source_results[k].ok =>
                /\ forex_out.rates = aggregate_forex_rates(symbols, RemoveAt(source_results, k))
                /\ forex_out.rates = aggregate_forex_rates(symbols, EmptiedAt(source_results, k))

\* C11 witness: the first source failed, the second reports an accepted rate,
\* and the output carries that rate.
C11_Witness ==
    /\ forex_out # NoResult
    /\ Len(source_results) = 2
    /\ ~source_results[1].ok
    /\ source_results[2].ok
    /\ symbols = <<"EUR">>
    /\ "EUR" \in DOMAIN source_results[2].rates
    /\ source_results[2].rates["EUR"] = FromInt(120)
    /\ Len(forex_out.rates) = 1
    /\ forex_out.rates[1].foreign_per_usd = FromInt(120)

\* The accepted rates for sym, one per non-failed source that reports a finite,
\* strictly positive rate for it, in source order
RECURSIVE AcceptedRates(_, _)
AcceptedRates(sym, results) ==
    IF results = <<>> THEN <<>>
    ELSE LET r == Head(results)
             rest == AcceptedRates(sym, Tail(results))
         IN  IF /\ r.ok
                /\ sym \in DOMAIN r.rates
                /\ r.rates[sym].k = "fin"
                /\ r.rates[sym].n > 0
             THEN <<r.rates[sym]>> \o rest
             ELSE rest

\* C12: every emitted foreign_per_usd is the arithmetic mean of the accepted
\* rates of its symbol, each source counted once; a rate more than 1% away from
\* that mean stays in the mean and the symbol stays in the output.
C12_RateIsMeanOfAccepted ==
    forex_out # NoResult =>
        /\ \A k \in 1..Len(forex_out.rates) :
              LET acc == AcceptedRates(forex_out.rates[k].symbol, source_results)
              IN  /\ acc # <<>>
                  /\ forex_out.rates[k].foreign_per_usd
                        = FDiv(FSum(acc), FromInt(Len(acc)))
        /\ \A sym \in Requested :
              AcceptedRates(sym, source_results) # <<>> =>
                  \E k \in 1..Len(forex_out.rates) : forex_out.rates[k].symbol = sym

\* C12 witness: two sources report 100 and 120 for the symbol (each more than
\* 1% from the mean 110) and the symbol is emitted with 110.
C12_Witness ==
    /\ forex_out # NoResult
    /\ symbols = <<"EUR">>
    /\ AcceptedRates("EUR", source_results) = <<FromInt(100), FromInt(120)>>
    /\ Len(forex_out.rates) = 1
    /\ forex_out.rates[1].foreign_per_usd = FromInt(110)

====
